---- MODULE Spec2Model ----
(***************************************************************************)
(* Model of src/script.js: the throttle and debounce wrappers (lines       *)
(* 569-592), the Konami-code key listener (lines 624-640), the dynamic     *)
(* list (lines 506-566), the message textarea and its form (lines 138-212), *)
(* the FAQ toggles and the tab buttons (lines 341-391), the mouse log      *)
(* (lines 21-40), the double-click button (lines 57-63) and the throttled  *)
(* window listeners (lines 285-297).                                       *)
(*                                                                         *)
(* Time is a discrete clock `now` in milliseconds.  Handlers run to        *)
(* completion.  The host timer table `timers` is the one setTimeout and    *)
(* clearTimeout work on; the host runs a timer's callback at its due time  *)
(* or later, never before: the clock may advance past a timer that is due  *)
(* (the host is busy with other work), calls made while a timer is due may *)
(* run before it, and timers that are due together run in an order the     *)
(* host chooses, except that timers set with the same delay run in the     *)
(* order they were set.                                                    *)
(***************************************************************************)
EXTENDS Integers, Sequences, FiniteSets, TLC

VARIABLES
    now,          \* the clock, in milliseconds
    limit,        \* throttle(func, limit): the limit each wrapper was built with
    wait,         \* debounce(func, wait): the wait each wrapper was built with
    inThrottle,   \* line 570: the closure variable of each throttle wrapper
    timeout,      \* line 583: the closure variable of each debounce wrapper
    timers,       \* the host's pending timers
    nextTimerId,  \* the handle the next setTimeout returns
    calls,        \* history: every call made to a wrapper, in order
    invoked,      \* history: every invocation of a wrapped callback, in order
    cancelled,    \* history: handles of the timers cleared while pending
    konamiCode,   \* line 624: the key buffer
    keysSeen,     \* history: every key pressed, in order
    matches,      \* history: the ordinals of the key presses that raised the alert
    rainbow,      \* lines 633-637: whether the body carries the rainbow style
    pos,          \* typist: how far the typist is into the target pattern
    noise,        \* typist: how many off-script keys were pressed so far
    dynamicList,  \* line 510: the children of the list element, in order
    listSize0,    \* history: how many items the list started with
    removeClicks, \* history: clicks on remove-item made on a non-empty list
    itemCount,    \* line 512: the closure variable that numbers the new items
    listOps,      \* history: clicks on add-item, clear-all and delete buttons
    messageLen,   \* line 157: the length of the textarea's value
    messageLog,   \* line 160: how many times the maximum was reported
    document,     \* the elements of the page the tab buttons deal with, in order
    lastTab,      \* history: the tab button clicked last, 0 before any click
    mouseLog,     \* line 23: the child nodes of the mouse log, in order
    mouseEvents,  \* history: every mouse event on the target, logged or not
    background,   \* lines 59-62: whether the double-click button is highlighted
    shown,        \* lines 287, 292, 599 and 607: the event whose window size
                  \* or scroll position each display shows, 0 for the load
    windowEvents  \* history: every resize, scroll and double click, in order

vars == <<now, limit, wait, inThrottle, timeout, timers, nextTimerId,
          calls, invoked, cancelled, konamiCode, keysSeen, matches, rainbow,
          pos, noise, dynamicList, listSize0, removeClicks, itemCount, listOps,
          messageLen, messageLog, document, lastTab, mouseLog, mouseEvents,
          background, shown, windowEvents>>

listVars == <<dynamicList, listSize0, removeClicks, itemCount, listOps>>

messageVars == <<messageLen, messageLog>>

tabVars == <<document, lastTab>>

mouseVars == <<mouseLog, mouseEvents>>

windowVars == <<background, shown, windowEvents>>

pageVars == <<dynamicList, listSize0, removeClicks, itemCount, listOps,
              messageLen, messageLog, document, lastTab, mouseLog, mouseEvents,
              background, shown, windowEvents>>

konamiVars == <<konamiCode, keysSeen, matches, rainbow, pos, noise>>

(***************************************************************************)
(* Bounds.                                                                 *)
(***************************************************************************)
\* how long the clock runs with a throttle wrapper
MaxThrottleTime == 3

\* how long the clock runs with a debounce wrapper
MaxDebounceTime == 4

MaxLimit == 2

MaxCalls == 3

MaxDepth == 1

MaxWait == 2

MaxKeys == 12

MaxNoise == 2

\* how late the host runs a timer when time is let pass to its due time
MaxLate == 100

\* the most items the list starts with, and the most clicks on remove-item
MaxItems == 2

MaxClicks == 2

\* the most clicks on add-item, clear-all and the delete buttons
MaxListOps == 1

\* how long the clock runs with the list, and how far one step of it goes
MaxListTime == 600

ListStepMs == 300

\* the most times the textarea reports that the maximum is reached
MaxBlocked == 2

\* the most keys pressed in the textarea
MaxTyped == 4

\* the most elements of the page the tab buttons deal with
MaxElements == 3

\* the most mouse events on the target, and the most child nodes the markup
\* gives the mouse log
MaxMouseEvents == 12

MaxMarkup == 2

\* how long the clock runs with the mouse log, and how far one step of it goes
MaxMouseTime == 200

MouseStepMs == 50

\* the most window events and double clicks
MaxWindowEvents == 1

ThrottleIds == {"t1"}

DebounceIds == {"d1"}

\* the wrappers of the specification with several wrappers side by side
AllThrottleIds == {"t1", "t2"}

AllDebounceIds == {"d1", "d2"}

Args == {"a", "b"}

\* the receiver of a call: an object, or undefined for a plain call
Receivers == {"element", "undefined"}

Limits == 0..MaxLimit

Waits == 0..MaxWait

(***************************************************************************)
(* JavaScript values of the closure variables.                             *)
(***************************************************************************)
\* truthiness of inThrottle, which is undefined, true or false
Truthy(v) == v = "true"

(***************************************************************************)
(* The host timer facility.                                                *)
(***************************************************************************)
\* setTimeout(callback, delay): a new pending timer with handle id
\* whose callback is of the given kind and closes over args, this and call
SetTimeout(tms, id, delay, kind, w, args, this, call) ==
    tms \cup {[id |-> id, delay |-> delay, due |-> now + delay, kind |-> kind,
               w |-> w, args |-> args, this |-> this, call |-> call]}

\* mutant: clearTimeout cancels nothing
ClearTimeoutNothing(tms, id) == tms

\* clearTimeout(id): the pending timer with that handle, if any, is removed
ClearTimeout(tms, id) == {tm \in tms : tm.id # id}

\* the timers the host may run now.  A timer runs when it is due or later,
\* and after the timers set before it with the same delay; among the other
\* timers that are due the order is the host's choice (by due time in most
\* browsers, by delay list in Node), so any of them may run first
TimerDue(tm) ==
    /\ tm \in timers
    /\ tm.due <= now
    /\ \A other \in timers :
          (other.delay = tm.delay /\ other.id <= tm.id) => other = tm

(***************************************************************************)
(* throttle, lines 569-580.                                                *)
(***************************************************************************)
\* what one run of the wrapped callback does: return, throw, or call the
\* wrapper again from inside; after that call it returns unless the call
\* threw (reenter), throws whatever the call did (reenterThrow), or returns
\* whatever the call did, catching what it threw (reenterCatch)
Reenters == {"reenter", "reenterThrow", "reenterCatch"}

PlanStep == [args : Args, this : Receivers,
             does : {"return", "throw"} \cup Reenters]

\* the calls the page makes to a wrapper: a listener call with an event on
\* its element, and a plain call with another argument
CallShapes ==
    {[args |-> "a", this |-> "element"], [args |-> "b", this |-> "undefined"]}

\* the calls made from inside the callback are plain calls, without receiver
PlansOfLen(n) ==
    {p \in [1..n -> PlanStep] :
        /\ [args |-> p[1].args, this |-> p[1].this] \in CallShapes
        /\ \A i \in 1..n : /\ (p[i].does \in Reenters) <=> (i < n)
                           /\ i > 1 => p[i].this = "undefined"}

Plans == UNION {PlansOfLen(n) : n \in 1..(MaxDepth + 1)}

\* line 574: if (!inThrottle)
ThrottleOpen(v) == ~Truthy(v)

\* mutant: func is applied without the receiver
ThrottleApplyNoReceiver(context, args) == [args |-> args, this |-> "undefined"]

\* line 575: func.apply(context, args): what func receives
ThrottleApply(context, args) == [args |-> args, this |-> context]

\* mutant: the unlock timer is set one millisecond late
UnlockDelayLate(w) == limit[w] + 1

\* line 577: the delay handed to setTimeout
UnlockDelay(w) == limit[w]

\* lines 575-577: func.apply threw, so lines 576 and 577 are not run and the
\* exception leaves the wrapper with the state func left
ThrottleThrown(st) == st

\* The wrapper returned by throttle, called with plan[1].args on receiver
\* plan[1].this; st is the state the call starts in.  Tail(plan) is what the
\* calls made from inside func do.
RECURSIVE ThrottledCall(_, _, _)
ThrottledCall(st, w, plan) ==
    LET c    == Head(plan)
        idx  == Len(st.calls) + 1
        rec  == [w |-> w, t |-> now, args |-> c.args, this |-> c.this,
                 depth |-> st.depth, saw |-> st.inThrottle,
                 pending |-> Cardinality({tm \in st.timers : tm.w = w}),
                 outcome |-> "returned", left |-> st.inThrottle]
    IN  IF ~ThrottleOpen(st.inThrottle)
        THEN [st EXCEPT !.calls = Append(@, rec)]
        ELSE
          LET got == ThrottleApply(c.this, c.args)
              s1  == [st EXCEPT
                        !.calls = Append(@, rec),
                        !.invoked = Append(@, [w |-> w, t |-> now,
                                               args |-> got.args, this |-> got.this,
                                               call |-> idx, from |-> "call",
                                               timer |-> 0])]
              s2  == IF c.does \in Reenters
                     THEN [ThrottledCall([s1 EXCEPT !.depth = @ + 1], w, Tail(plan))
                             EXCEPT !.depth = st.depth]
                     ELSE s1
              threw == \/ c.does = "throw"
                       \/ c.does = "reenterThrow"
                       \/ c.does = "reenter" /\ s2.calls[idx + 1].outcome = "threw"
          IN  IF threw
              THEN LET s3 == ThrottleThrown(s2)
                   IN  [s3 EXCEPT !.calls[idx].outcome = "threw",
                                  !.calls[idx].left = s3.inThrottle]
              ELSE [s2 EXCEPT
                      !.inThrottle = "true",
                      !.timers = SetTimeout(@, s2.nextTimerId, UnlockDelay(w),
                                            "unlock", w, "none", "none", 0),
                      !.nextTimerId = @ + 1,
                      !.calls[idx].outcome = "returned",
                      !.calls[idx].left = "true"]

\* an event handler (or any caller) calls the throttled wrapper w
ThrottleCall(w, plan) ==
    /\ Len(calls) + Len(plan) <= MaxCalls
    /\ LET r == ThrottledCall([inThrottle |-> inThrottle[w], timers |-> timers,
                               nextTimerId |-> nextTimerId, calls |-> calls,
                               invoked |-> invoked, depth |-> 0], w, plan)
       IN  /\ inThrottle' = [inThrottle EXCEPT ![w] = r.inThrottle]
           /\ timers' = r.timers
           /\ nextTimerId' = r.nextTimerId
           /\ calls' = r.calls
           /\ invoked' = r.invoked
    /\ UNCHANGED <<now, limit, wait, timeout, cancelled>>
    /\ UNCHANGED konamiVars
    /\ UNCHANGED pageVars

\* mutant: the flag is shared, the timer callback unlocks every wrapper
ThrottleUnlockAll(tm) ==
    /\ TimerDue(tm)
    /\ tm.kind = "unlock"
    /\ inThrottle' = [w \in DOMAIN inThrottle |-> "false"]
    /\ timers' = timers \ {tm}
    /\ UNCHANGED <<now, limit, wait, timeout, nextTimerId, calls, invoked, cancelled>>
    /\ UNCHANGED konamiVars
    /\ UNCHANGED pageVars

\* mutant: the timer callback runs but leaves the flag as it is
ThrottleUnlockStuck(tm) ==
    /\ TimerDue(tm)
    /\ tm.kind = "unlock"
    /\ timers' = timers \ {tm}
    /\ UNCHANGED <<now, limit, wait, inThrottle, timeout, nextTimerId, calls,
                   invoked, cancelled>>
    /\ UNCHANGED konamiVars
    /\ UNCHANGED pageVars

\* line 577: () => inThrottle = false, run by the host when the timer is due
ThrottleUnlock(tm) ==
    /\ TimerDue(tm)
    /\ tm.kind = "unlock"
    /\ inThrottle' = [inThrottle EXCEPT ![tm.w] = "false"]
    /\ timers' = timers \ {tm}
    /\ UNCHANGED <<now, limit, wait, timeout, nextTimerId, calls, invoked, cancelled>>
    /\ UNCHANGED konamiVars
    /\ UNCHANGED pageVars

\* one millisecond passes, up to the horizon, whether or not a pending
\* timer is due: the host runs a timer at its due time or later
Tick(horizon) ==
    /\ now < horizon
    /\ now' = now + 1
    /\ UNCHANGED <<limit, wait, inThrottle, timeout, timers, nextTimerId,
                   calls, invoked, cancelled>>
    /\ UNCHANGED konamiVars
    /\ UNCHANGED pageVars

(***************************************************************************)
(* debounce, lines 582-592.                                                *)
(***************************************************************************)
\* mutant: the timer is set one millisecond late
DebounceDelayLate(w) == wait[w] + 1

\* line 590: the delay handed to setTimeout
DebounceDelay(w) == wait[w]

\* mutant: the handle of the pending timer is lost, nothing is cancelled
DebounceHandleLost(w) == 0

\* lines 586 and 589: the handle handed to clearTimeout; 0 is undefined
DebounceHandle(w) == timeout[w]

\* line 587: func(...args): what func receives; a plain call has no receiver
DebounceApply(context, args) == [args |-> args, this |-> "undefined"]

\* the handles of the timers that clearing takes out of tms
Cleared(tms, left) == {tm.id : tm \in tms \ left}

\* lines 584-591: the wrapper returned by debounce is called
DebounceCall(w, args, this) ==
    /\ Len(calls) < MaxCalls
    /\ LET left == ClearTimeout(timers, DebounceHandle(w))
       IN  /\ timers' = SetTimeout(left, nextTimerId, DebounceDelay(w), "later",
                                   w, args, this, Len(calls) + 1)
           /\ cancelled' = cancelled \cup Cleared(timers, left)
    /\ timeout' = [timeout EXCEPT ![w] = nextTimerId]
    /\ nextTimerId' = nextTimerId + 1
    /\ calls' = Append(calls, [w |-> w, t |-> now, args |-> args, this |-> this,
                               depth |-> 0, saw |-> "none",
                               pending |-> Cardinality({tm \in timers : tm.w = w}),
                               outcome |-> "returned", left |-> "none"])
    /\ UNCHANGED <<now, limit, wait, inThrottle, invoked>>
    /\ UNCHANGED konamiVars
    /\ UNCHANGED pageVars

\* lines 585-588: later, run by the host when the timer is due.  Whatever
\* func does next (throw, or call the wrapper, which is a DebounceCall at
\* this instant) happens after the wrapper's own state is settled.
DebounceLater(tm) ==
    /\ TimerDue(tm)
    /\ tm.kind = "later"
    /\ LET left == ClearTimeout(timers \ {tm}, DebounceHandle(tm.w))
           got  == DebounceApply(tm.this, tm.args)
       IN  /\ timers' = left
           /\ cancelled' = cancelled \cup Cleared(timers \ {tm}, left)
           /\ invoked' = Append(invoked, [w |-> tm.w, t |-> now,
                                          args |-> got.args, this |-> got.this,
                                          call |-> tm.call, from |-> "timer",
                                          timer |-> tm.id])
    /\ UNCHANGED <<now, limit, wait, inThrottle, timeout, nextTimerId, calls>>
    /\ UNCHANGED konamiVars
    /\ UNCHANGED pageVars

(***************************************************************************)
(* The Konami-code listener, lines 624-640.                                *)
(***************************************************************************)
\* line 627: the capacity of the buffer
KonamiLen == 10

\* line 631: the string the joined buffer is compared with
KonamiString ==
    "ArrowUpArrowUpArrowDownArrowDownArrowLeftArrowRightArrowLeftArrowRightba"

\* line 635-638: the delay after which the rainbow style is taken off
RainbowMs == 5000

\* the ten key identifiers of the pattern, in order
Target ==
    <<"ArrowUp", "ArrowUp", "ArrowDown", "ArrowDown", "ArrowLeft", "ArrowRight",
      "ArrowLeft", "ArrowRight", "b", "a">>

\* the key identifiers (e.key) the model presses: those of the pattern, one
\* outside it, one that is the text of two pattern keys in a row, and the
\* empty identifier of a keyboard event built without a key
Keys == {Target[i] : i \in DOMAIN Target} \cup {"x", "ba", ""}

\* line 631: konamiCode.join(''), the concatenation of the identifiers
RECURSIVE Join(_)
Join(buf) == IF buf = <<>> THEN "" ELSE Head(buf) \o Join(Tail(buf))

\* mutant: the buffer is trimmed as soon as it holds 10 keys
KonamiTrimEarly(buf) == IF Len(buf) >= KonamiLen THEN Tail(buf) ELSE buf

\* mutant: the buffer is never trimmed
KonamiTrimNever(buf) == buf

\* lines 627-629: if (konamiCode.length > 10) konamiCode.shift()
KonamiTrim(buf) == IF Len(buf) > KonamiLen THEN Tail(buf) ELSE buf

\* line 631: the comparison that raises the alert
KonamiMatch(buf) == Join(buf) = KonamiString

\* lines 625-640: the keydown listener of the document, for a key press with
\* e.key = k
KonamiListener(k) ==
    LET buf == KonamiTrim(Append(konamiCode, k))
    IN  /\ konamiCode' = buf
        /\ keysSeen' = Append(keysSeen, k)
        /\ IF KonamiMatch(buf)
           THEN /\ matches' = Append(matches, Len(keysSeen) + 1)
                /\ rainbow' = TRUE
                /\ timers' = SetTimeout(timers, nextTimerId, RainbowMs, "reset",
                                        "body", "none", "none", 0)
                /\ nextTimerId' = nextTimerId + 1
           ELSE UNCHANGED <<matches, rainbow, timers, nextTimerId>>

\* a key press outside the form: the document's listener is the only one
\* that runs
KeyDown(k) ==
    /\ KonamiListener(k)
    /\ UNCHANGED <<now, limit, wait, inThrottle, timeout, calls, invoked,
                   cancelled>>
    /\ UNCHANGED pageVars

\* lines 635-638: the timer callback that takes the rainbow style off
RainbowReset(tm) ==
    /\ TimerDue(tm)
    /\ tm.kind = "reset"
    /\ rainbow' = FALSE
    /\ timers' = timers \ {tm}
    /\ UNCHANGED <<now, limit, wait, inThrottle, timeout, nextTimerId, calls,
                   invoked, cancelled, konamiCode, keysSeen, matches, pos, noise>>
    /\ UNCHANGED pageVars

\* time passes until the next pending timer is due, or until MaxLate
\* milliseconds later while the host is busy
Elapse ==
    /\ \E tm \in timers : tm.due > now
    /\ LET dues == {tm.due : tm \in {t \in timers : t.due > now}}
           next == CHOOSE d \in dues : \A e \in dues : d <= e
       IN  \E late \in {0, MaxLate} : now' = next + late
    /\ UNCHANGED <<limit, wait, inThrottle, timeout, timers, nextTimerId,
                   calls, invoked, cancelled>>
    /\ UNCHANGED konamiVars
    /\ UNCHANGED pageVars

\* The typist the key presses come from: it types the pattern over and over
\* (pos keys of it are typed), and at most MaxNoise times presses any key
\* instead, going on with the pattern or starting it over.
TypePattern ==
    /\ Len(keysSeen) < MaxKeys
    /\ KeyDown(Target[pos + 1])
    /\ pos' = (pos + 1) % KonamiLen
    /\ noise' = noise

TypeOther(k, restart) ==
    /\ Len(keysSeen) < MaxKeys
    /\ noise < MaxNoise
    /\ KeyDown(k)
    /\ pos' = IF restart THEN 0 ELSE (pos + 1) % KonamiLen
    /\ noise' = noise + 1

(***************************************************************************)
(* The dynamic list, lines 506-566.                                        *)
(***************************************************************************)
\* line 543: the delay after which the faded item is removed
RemoveMs == 300

\* line 534: the delay after which a new item fades in
AddFadeMs == 10

\* line 555: the delay between the fade-outs of clear-all, item by item
ClearStepMs == 50

\* the list element with n items; opacity stands for the inline style,
\* which the markup leaves unset
ListOf(n) == [i \in 1..n |-> [id |-> i, opacity |-> ""]]

\* lines 528, 532, 541 and 552: item.style.opacity = value
SetOpacity(list, id, value) ==
    [i \in DOMAIN list |->
        IF list[i].id = id THEN [list[i] EXCEPT !.opacity = value] ELSE list[i]]

\* lines 540-542: the item fades out
FadeOut(list, id) == SetOpacity(list, id, "0")

\* lines 522, 543, 554 and 563: remove(), which does nothing for a detached
\* item
RemoveItem(list, id) == SelectSeq(list, LAMBDA it : it.id # id)

\* lines 514-535: a click on add-item
AddItemClick ==
    /\ listOps < MaxListOps
    /\ itemCount' = itemCount + 1
    /\ dynamicList' = Append(dynamicList, [id |-> itemCount + 1, opacity |-> "0"])
    /\ timers' = SetTimeout(timers, nextTimerId, AddFadeMs, "fadein", "list",
                            itemCount + 1, "none", 0)
    /\ nextTimerId' = nextTimerId + 1
    /\ listOps' = listOps + 1
    /\ UNCHANGED <<now, limit, wait, inThrottle, timeout, calls, invoked,
                   cancelled, listSize0, removeClicks>>
    /\ UNCHANGED konamiVars
    /\ UNCHANGED messageVars
    /\ UNCHANGED tabVars
    /\ UNCHANGED mouseVars
    /\ UNCHANGED windowVars

\* lines 530-534: the timer callback that fades the new item in
FadeInFire(tm) ==
    /\ TimerDue(tm)
    /\ tm.kind = "fadein"
    /\ dynamicList' = SetOpacity(dynamicList, tm.args, "1")
    /\ timers' = timers \ {tm}
    /\ UNCHANGED <<now, limit, wait, inThrottle, timeout, nextTimerId, calls,
                   invoked, cancelled, listSize0, removeClicks, itemCount,
                   listOps>>
    /\ UNCHANGED konamiVars
    /\ UNCHANGED messageVars
    /\ UNCHANGED tabVars
    /\ UNCHANGED mouseVars
    /\ UNCHANGED windowVars

\* lines 521-523 and 561-565: a click on the delete button of an item of
\* the list
DeleteItemClick(id) ==
    /\ listOps < MaxListOps
    /\ \E i \in DOMAIN dynamicList : dynamicList[i].id = id
    /\ dynamicList' = RemoveItem(dynamicList, id)
    /\ listOps' = listOps + 1
    /\ UNCHANGED <<now, limit, wait, inThrottle, timeout, timers, nextTimerId,
                   calls, invoked, cancelled, listSize0, removeClicks,
                   itemCount>>
    /\ UNCHANGED konamiVars
    /\ UNCHANGED messageVars
    /\ UNCHANGED tabVars
    /\ UNCHANGED mouseVars
    /\ UNCHANGED windowVars

\* lines 549-556: the timers clear-all sets, one per item, 50 ms apart
ClearTimers(list, firstId) ==
    UNION {SetTimeout({}, firstId + i - 1, (i - 1) * ClearStepMs, "clear",
                      "list", list[i].id, "none", 0) : i \in DOMAIN list}

\* lines 547-558: a click on clear-all; ok is the answer to confirm()
ClearAllClick(ok) ==
    /\ listOps < MaxListOps
    /\ IF ok
       THEN /\ timers' = timers \cup ClearTimers(dynamicList, nextTimerId)
            /\ nextTimerId' = nextTimerId + Len(dynamicList)
       ELSE UNCHANGED <<timers, nextTimerId>>
    /\ listOps' = listOps + 1
    /\ UNCHANGED <<now, limit, wait, inThrottle, timeout, calls, invoked,
                   cancelled, dynamicList, listSize0, removeClicks, itemCount>>
    /\ UNCHANGED konamiVars
    /\ UNCHANGED messageVars
    /\ UNCHANGED tabVars
    /\ UNCHANGED mouseVars
    /\ UNCHANGED windowVars

\* lines 550-555: the timer callback of clear-all for one item
ClearFire(tm) ==
    /\ TimerDue(tm)
    /\ tm.kind = "clear"
    /\ dynamicList' = SetOpacity(dynamicList, tm.args, "0")
    /\ timers' = SetTimeout(timers \ {tm}, nextTimerId, RemoveMs, "remove",
                            "list", tm.args, "none", 0)
    /\ nextTimerId' = nextTimerId + 1
    /\ UNCHANGED <<now, limit, wait, inThrottle, timeout, calls, invoked,
                   cancelled, listSize0, removeClicks, itemCount, listOps>>
    /\ UNCHANGED konamiVars
    /\ UNCHANGED messageVars
    /\ UNCHANGED tabVars
    /\ UNCHANGED mouseVars
    /\ UNCHANGED windowVars

\* lines 537-545: a click on remove-item
RemoveItemClick ==
    /\ removeClicks < MaxClicks
    /\ IF dynamicList # <<>>
       THEN LET lastItem == dynamicList[Len(dynamicList)].id
            IN  /\ dynamicList' = FadeOut(dynamicList, lastItem)
                /\ timers' = SetTimeout(timers, nextTimerId, RemoveMs, "remove",
                                        "list", lastItem, "none", 0)
                /\ nextTimerId' = nextTimerId + 1
                /\ removeClicks' = removeClicks + 1
       ELSE UNCHANGED <<dynamicList, timers, nextTimerId, removeClicks>>
    /\ UNCHANGED <<now, limit, wait, inThrottle, timeout, calls, invoked,
                   cancelled, listSize0, itemCount, listOps>>
    /\ UNCHANGED konamiVars
    /\ UNCHANGED messageVars
    /\ UNCHANGED tabVars
    /\ UNCHANGED mouseVars
    /\ UNCHANGED windowVars

\* lines 543 and 554: () => item.remove(), run by the host when the timer
\* is due
RemoveFire(tm) ==
    /\ TimerDue(tm)
    /\ tm.kind = "remove"
    /\ dynamicList' = RemoveItem(dynamicList, tm.args)
    /\ timers' = timers \ {tm}
    /\ UNCHANGED <<now, limit, wait, inThrottle, timeout, nextTimerId, calls,
                   invoked, cancelled, listSize0, removeClicks, itemCount,
                   listOps>>
    /\ UNCHANGED konamiVars
    /\ UNCHANGED messageVars
    /\ UNCHANGED tabVars
    /\ UNCHANGED mouseVars
    /\ UNCHANGED windowVars

\* time passes by one step, or up to the next due time if that comes
\* first, whether or not a pending timer is due; beyond MaxListTime it only
\* passes up to the next due time
ListTick ==
    LET dues == {tm.due : tm \in {t \in timers : t.due > now}}
    IN  /\ now < MaxListTime \/ dues # {}
        /\ now' = IF \E d \in dues : d < now + ListStepMs \/ now >= MaxListTime
                  THEN CHOOSE d \in dues : \A e \in dues : d <= e
                  ELSE now + ListStepMs
    /\ UNCHANGED <<limit, wait, inThrottle, timeout, timers, nextTimerId,
                   calls, invoked, cancelled>>
    /\ UNCHANGED konamiVars
    /\ UNCHANGED pageVars

(***************************************************************************)
(* The message textarea and its form, lines 93-97 and 138-212.             *)
(***************************************************************************)
\* line 158: the length above which keys are blocked
MessageCap == 100

\* line 96: the least length of a valid message
MessageMin == 10

\* the keys pressed in the textarea: a character key and the two erasing keys
MessageKeys == {"x", "Backspace", "Delete"}

\* the lengths of the texts pasted into the textarea
PasteLens == {MessageMin - 1, MessageCap - 1, MessageCap}

\* lines 93-97: validateMessage, on a text of the given length without
\* white space at either end
ValidateMessage(length) == length >= MessageMin /\ length <= MessageCap

\* line 158: the condition under which the key press is cancelled
MessageBlocked(length, key) ==
    length > MessageCap /\ key # "Backspace" /\ key # "Delete"

\* lines 156-162 and 625-640: a key press in the textarea.  The textarea's
\* listener runs, the event bubbles to the document, whose listener records
\* the key (preventDefault does not stop the propagation), and the key's
\* default action follows unless the textarea's listener cancelled it: a
\* character key appends one character, an erasing key erases one character
\* when there is one at the cursor (erased tells)
MessageKeyDown(key, erased) ==
    /\ Len(keysSeen) < MaxTyped
    /\ IF MessageBlocked(messageLen, key)
       THEN /\ messageLog < MaxBlocked
            /\ messageLog' = messageLog + 1
            /\ messageLen' = messageLen
       ELSE /\ messageLog' = messageLog
            /\ messageLen' = IF key = "x" THEN messageLen + 1
                             ELSE IF erased /\ messageLen > 0 THEN messageLen - 1
                             ELSE messageLen
    /\ KonamiListener(key)
    /\ UNCHANGED <<now, limit, wait, inThrottle, timeout, calls, invoked,
                   cancelled, pos, noise>>
    /\ UNCHANGED listVars
    /\ UNCHANGED tabVars
    /\ UNCHANGED mouseVars
    /\ UNCHANGED windowVars

\* a text of n characters is pasted with the mouse into the empty textarea:
\* no key is pressed, and the input listener of lines 138-154 only writes to
\* the form log and colours the border
MessagePaste(n) ==
    /\ messageLen = 0
    /\ messageLen' = n
    /\ messageLog' = messageLog
    /\ UNCHANGED <<now, limit, wait, inThrottle, timeout, timers, nextTimerId,
                   calls, invoked, cancelled>>
    /\ UNCHANGED konamiVars
    /\ UNCHANGED listVars
    /\ UNCHANGED tabVars
    /\ UNCHANGED mouseVars
    /\ UNCHANGED windowVars

\* lines 164-212: the form is submitted; fieldsValid tells whether the name
\* and the email pass their validation.  When every field is valid the form
\* is reset (line 202), which empties the textarea
FormSubmit(fieldsValid) ==
    /\ messageLen' = IF fieldsValid /\ messageLen # 0 /\ ValidateMessage(messageLen)
                     THEN 0
                     ELSE messageLen
    /\ messageLog' = messageLog
    /\ UNCHANGED <<now, limit, wait, inThrottle, timeout, timers, nextTimerId,
                   calls, invoked, cancelled>>
    /\ UNCHANGED konamiVars
    /\ UNCHANGED listVars
    /\ UNCHANGED tabVars
    /\ UNCHANGED mouseVars
    /\ UNCHANGED windowVars

(***************************************************************************)
(* The FAQ toggles and the tab buttons, lines 341-391.                     *)
(***************************************************************************)
\* the values of the id attribute on the page; "" is an element without id
ElementIds == {"tab1"}

\* the values of the data-tab attribute; no element has the id "tab3", which
\* is also how a missing attribute behaves (getElementById(null) finds nothing)
DataTabs == {"tab1", "tab3"}

\* the classes the listeners are registered by
Classes == {"faq-toggle", "tab-button", "tab-panel"}

\* an element: the classes of its class list among the three above (it may
\* carry several, or none), its id, its data-tab attribute (read on tab
\* buttons only) and whether its class list holds active and show
Elements ==
    {e \in [class : SUBSET Classes,
            id : ElementIds \cup {""}, tab : DataTabs \cup {""},
            active : BOOLEAN, show : BOOLEAN] :
        ("tab-button" \in e.class) <=> (e.tab # "")}

\* the pages: up to MaxElements sibling elements in document order, ids
\* unique, nothing expanded yet
Documents ==
    {d \in UNION {[1..n -> Elements] : n \in 1..MaxElements} :
        /\ \A i, j \in DOMAIN d : (d[i].id # "" /\ d[i].id = d[j].id) => i = j
        /\ \A i \in DOMAIN d : ~d[i].show}

\* line 343: document.querySelectorAll('.faq-toggle')
FaqToggles(doc) == {i \in DOMAIN doc : "faq-toggle" \in doc[i].class}

\* line 366: document.querySelectorAll('.tab-button')
TabButtons(doc) == {i \in DOMAIN doc : "tab-button" \in doc[i].class}

\* line 367: document.querySelectorAll('.tab-panel')
TabPanels(doc) == {i \in DOMAIN doc : "tab-panel" \in doc[i].class}

\* lines 373-374: classList.remove('active') on each element of a list
RemoveActive(doc, list) ==
    [i \in DOMAIN doc |->
        IF i \in list THEN [doc[i] EXCEPT !.active = FALSE] ELSE doc[i]]

\* lines 377 and 385: classList.add('active') on one element
AddActive(doc, i) == [doc EXCEPT ![i].active = TRUE]

\* line 383: document.getElementById(id): the first element with that id,
\* 0 for null
GetElementById(doc, id) ==
    IF \E i \in DOMAIN doc : doc[i].id = id
    THEN CHOOSE i \in DOMAIN doc :
             /\ doc[i].id = id
             /\ \A j \in DOMAIN doc : doc[j].id = id => i <= j
    ELSE 0

\* lines 347-359: the click listener of FAQ toggle i.  It toggles active on
\* the toggle, then show on the next sibling; on the last element
\* nextElementSibling is null and the listener ends there with a TypeError
FaqClick(doc, i) ==
    LET d1 == [doc EXCEPT ![i].active = ~doc[i].active]
    IN  IF i + 1 \in DOMAIN doc
        THEN [d1 EXCEPT ![i + 1].show = ~d1[i + 1].show]
        ELSE d1

\* lines 371-390: the click listener of tab button b
TabClick(doc, b) ==
    LET d1 == RemoveActive(doc, TabButtons(doc))
        d2 == RemoveActive(d1, TabPanels(doc))
        d3 == AddActive(d2, b)
        tabId == d3[b].tab
        activePanel == GetElementById(d3, tabId)
    IN  IF activePanel # 0 THEN AddActive(d3, activePanel) ELSE d3

\* a click on element i: its listeners run in the order they were added,
\* the FAQ listener (line 330) before the tab listener (line 333), and an
\* exception of the first does not keep the second from running.  lastTab
\* is the tab button clicked last, -1 once an element that is not a tab
\* button was clicked
Click(i) ==
    /\ i \in FaqToggles(document) \cup TabButtons(document)
    /\ LET d1 == IF i \in FaqToggles(document) THEN FaqClick(document, i)
                 ELSE document
       IN  document' = IF i \in TabButtons(document) THEN TabClick(d1, i) ELSE d1
    /\ lastTab' = IF i \in TabButtons(document) /\ lastTab # -1 THEN i ELSE -1
    /\ UNCHANGED <<now, limit, wait, inThrottle, timeout, timers, nextTimerId,
                   calls, invoked, cancelled>>
    /\ UNCHANGED listVars
    /\ UNCHANGED messageVars
    /\ UNCHANGED konamiVars
    /\ UNCHANGED mouseVars
    /\ UNCHANGED windowVars

(***************************************************************************)
(* The mouse log, lines 21-40.                                             *)
(***************************************************************************)
\* line 32: the most entries the log keeps
MouseLogCap == 10

\* line 39: the limit the mousemove listener is throttled with
MouseMoveLimit == 100

\* line 296: the limit the resize listener is throttled with
ResizeLimit == 250

\* line 297: the limit the scroll listener is throttled with
ScrollLimit == 50

\* line 62: the delay after which the double-click button loses its highlight
BackgroundMs == 500

\* the throttle wrappers of lines 296 and 297
WindowIds == {"resize", "scroll"}

\* the throttle wrappers of the page: line 39 and the two above
MouseIds == {"mousemove"} \cup WindowIds

\* the limit each wrapper of the page is built with
PageLimit(w) ==
    IF w = "mousemove" THEN MouseMoveLimit
    ELSE IF w = "resize" THEN ResizeLimit
    ELSE ScrollLimit

\* the child nodes the markup gives the log: text nodes (white space) and
\* list items; entry is 0 on the nodes that addMouseLogEntry did not make
MarkupNodes == {[node |-> "text", entry |-> 0], [node |-> "li", entry |-> 0]}

Markups == UNION {[1..n -> MarkupNodes] : n \in 0..MaxMarkup}

\* line 32: mouseLog.children, the child nodes that are elements
Children(nodes) == SelectSeq(nodes, LAMBDA nd : nd.node = "li")

\* mutant: the newest child is removed
RemoveLastChild(nodes) == SubSeq(nodes, 1, Len(nodes) - 1)

\* line 33: mouseLog.removeChild(mouseLog.firstChild), the first child node
\* of any kind
RemoveFirstChild(nodes) == Tail(nodes)

\* lines 32-34: while (mouseLog.children.length > 10) remove the first child
RECURSIVE TrimLog(_)
TrimLog(nodes) ==
    IF Len(Children(nodes)) > MouseLogCap
    THEN TrimLog(RemoveFirstChild(nodes))
    ELSE nodes

\* lines 25-35: addMouseLogEntry; entry stands for the new item's text
AddMouseLogEntry(nodes, entry) ==
    TrimLog(Append(nodes, [node |-> "li", entry |-> entry]))

\* whether the pointer is over the target: the last of the enter and leave
\* events was an enter
MouseInside ==
    LET marks == SelectSeq(mouseEvents, LAMBDA ev : ev.type # "mousemove")
    IN  marks # <<>> /\ marks[Len(marks)].type = "mouseenter"

\* lines 37-38: mouseenter and mouseleave call addMouseLogEntry directly
MouseEnterLeave(type) ==
    /\ now <= MaxMouseTime
    /\ Len(mouseEvents) < MaxMouseEvents
    /\ type = IF MouseInside THEN "mouseleave" ELSE "mouseenter"
    /\ mouseLog' = AddMouseLogEntry(mouseLog, Len(mouseEvents) + 1)
    /\ mouseEvents' = Append(mouseEvents, [type |-> type, logged |-> TRUE])
    /\ UNCHANGED <<now, limit, wait, inThrottle, timeout, timers, nextTimerId,
                   calls, invoked, cancelled>>
    /\ UNCHANGED listVars
    /\ UNCHANGED messageVars
    /\ UNCHANGED konamiVars
    /\ UNCHANGED tabVars
    /\ UNCHANGED windowVars

\* line 39: mousemove calls the throttled wrapper, whose callback is
\* addMouseLogEntry, which returns
MouseMove ==
    /\ now <= MaxMouseTime
    /\ Len(mouseEvents) < MaxMouseEvents
    /\ MouseInside
    /\ LET w == "mousemove"
           r == ThrottledCall([inThrottle |-> inThrottle[w], timers |-> timers,
                               nextTimerId |-> nextTimerId, calls |-> <<>>,
                               invoked |-> <<>>, depth |-> 0], w,
                              <<[args |-> "mousemove", this |-> "element",
                                 does |-> "return"]>>)
           applied == r.invoked # <<>>
       IN  /\ inThrottle' = [inThrottle EXCEPT ![w] = r.inThrottle]
           /\ timers' = r.timers
           /\ nextTimerId' = r.nextTimerId
           /\ mouseLog' = IF applied
                          THEN AddMouseLogEntry(mouseLog, Len(mouseEvents) + 1)
                          ELSE mouseLog
           /\ mouseEvents' = Append(mouseEvents, [type |-> "mousemove",
                                                  logged |-> applied])
    /\ UNCHANGED <<now, limit, wait, timeout, calls, invoked, cancelled>>
    /\ UNCHANGED listVars
    /\ UNCHANGED messageVars
    /\ UNCHANGED konamiVars
    /\ UNCHANGED tabVars
    /\ UNCHANGED windowVars

\* what the displays of the window's size and scroll position show in the
\* markup: the text of no event
MarkupDisplay == [w \in WindowIds |-> -1]

\* lines 285-293 and 595-609: updateWindowSize and updateScrollPosition
\* write the size or the scroll position the window has, the one that event
\* ev gave it (0 for the load), to the display of w
UpdateDisplay(display, w, ev) == [display EXCEPT ![w] = ev]

\* lines 296-297: a resize or scroll event calls the throttled wrapper w,
\* whose callback (lines 285-293) writes the window's size or scroll
\* position, which the event has just changed, to the display and returns
WindowEvent(w) ==
    /\ Len(windowEvents) < MaxWindowEvents
    /\ LET r == ThrottledCall([inThrottle |-> inThrottle[w], timers |-> timers,
                               nextTimerId |-> nextTimerId, calls |-> <<>>,
                               invoked |-> <<>>, depth |-> 0], w,
                              <<[args |-> w, this |-> "window",
                                 does |-> "return"]>>)
           applied == r.invoked # <<>>
       IN  /\ inThrottle' = [inThrottle EXCEPT ![w] = r.inThrottle]
           /\ timers' = r.timers
           /\ nextTimerId' = r.nextTimerId
           /\ shown' = IF applied
                       THEN UpdateDisplay(shown, w, Len(windowEvents) + 1)
                       ELSE shown
           /\ windowEvents' = Append(windowEvents, w)
    /\ UNCHANGED <<now, limit, wait, timeout, calls, invoked, cancelled,
                   background>>
    /\ UNCHANGED mouseVars
    /\ UNCHANGED listVars
    /\ UNCHANGED messageVars
    /\ UNCHANGED konamiVars
    /\ UNCHANGED tabVars

\* lines 57-63: a double click on the button highlights it and sets the
\* timer that takes the highlight off
DblClick ==
    /\ Len(windowEvents) < MaxWindowEvents
    /\ background' = TRUE
    /\ timers' = SetTimeout(timers, nextTimerId, BackgroundMs, "background",
                            "button", "none", "none", 0)
    /\ nextTimerId' = nextTimerId + 1
    /\ windowEvents' = Append(windowEvents, "dblclick")
    /\ UNCHANGED <<now, limit, wait, inThrottle, timeout, calls, invoked,
                   cancelled, shown>>
    /\ UNCHANGED mouseVars
    /\ UNCHANGED listVars
    /\ UNCHANGED messageVars
    /\ UNCHANGED konamiVars
    /\ UNCHANGED tabVars

\* lines 60-62: the timer callback that takes the highlight off
BackgroundReset(tm) ==
    /\ TimerDue(tm)
    /\ tm.kind = "background"
    /\ background' = FALSE
    /\ timers' = timers \ {tm}
    /\ UNCHANGED <<now, limit, wait, inThrottle, timeout, nextTimerId, calls,
                   invoked, cancelled, shown, windowEvents>>
    /\ UNCHANGED konamiVars
    /\ UNCHANGED listVars
    /\ UNCHANGED messageVars
    /\ UNCHANGED tabVars
    /\ UNCHANGED mouseVars

\* time passes by one step, or up to the next due time if that comes
\* first, whether or not a pending timer is due; beyond MaxMouseTime, the
\* time of the last event, it only passes up to the next due time
MouseTick ==
    LET dues == {tm.due : tm \in {t \in timers : t.due > now}}
    IN  /\ now < MaxMouseTime \/ dues # {}
        /\ now' = IF \E d \in dues : d < now + MouseStepMs \/ now >= MaxMouseTime
                  THEN CHOOSE d \in dues : \A e \in dues : d <= e
                  ELSE now + MouseStepMs
    /\ UNCHANGED <<limit, wait, inThrottle, timeout, timers, nextTimerId,
                   calls, invoked, cancelled>>
    /\ UNCHANGED konamiVars
    /\ UNCHANGED pageVars

(***************************************************************************)
(* Histories.                                                              *)
(***************************************************************************)
\* the calls made to wrapper w, and the invocations of its callback
CallsOf(w) == {i \in DOMAIN calls : calls[i].w = w}

InvokedOf(w) == {k \in DOMAIN invoked : invoked[k].w = w}

\* the invocations of the callback that call i caused
InvokedBy(i) == {k \in DOMAIN invoked : invoked[k].call = i}

\* the calls made to the wrapper of call i after call i
After(i) == {j \in CallsOf(calls[i].w) : j > i}

(***************************************************************************)
(* Throttle claims.                                                        *)
(***************************************************************************)
\* C1: any two invocations of f through the throttled wrapper f' are at
\* least T milliseconds apart.
C1_MinSpacing ==
    \A w \in ThrottleIds : \A i, j \in InvokedOf(w) :
        i < j => invoked[j].t - invoked[i].t >= limit[w]

\* the burst that call i starts: i and the later calls to the same wrapper
\* made less than T milliseconds after it
Burst(i) ==
    {i} \cup {j \in CallsOf(calls[i].w) :
                 j > i /\ calls[j].t - calls[i].t < limit[calls[i].w]}

\* C2: a burst of calls that starts on an unlocked wrapper and lies within T
\* milliseconds of its first call invokes f exactly once, with the arguments
\* of the first call; the other calls of the burst invoke nothing.
C2_Burst ==
    \A w \in ThrottleIds : \A i \in CallsOf(w) :
        ~Truthy(calls[i].saw) =>
            /\ \E k \in InvokedBy(i) : invoked[k].args = calls[i].args
            /\ \A j \in Burst(i) : \A k \in InvokedBy(j) : j = i
            /\ Cardinality(InvokedBy(i)) = 1

\* C3: a locked wrapper is unlocked once T milliseconds have passed since the
\* invocation of f that locked it; a call made more than T milliseconds after
\* every earlier invocation of f invokes f, and locks the wrapper again when
\* f returns.
C3_Release ==
    \A w \in ThrottleIds :
        /\ Truthy(inThrottle[w]) =>
              \E k \in InvokedOf(w) : now <= invoked[k].t + limit[w]
        /\ \A j \in CallsOf(w) :
              (\A k \in InvokedOf(w) :
                   invoked[k].call < j => calls[j].t > invoked[k].t + limit[w])
              => /\ InvokedBy(j) # {}
                 /\ calls[j].outcome = "returned" => Truthy(calls[j].left)

\* C3, amended: a wrapper is locked only while one of its unlock timers is
\* pending, every unlock timer is due T milliseconds after an invocation of
\* f, and a call made when no unlock timer of the wrapper is pending (the
\* host has run them all, each at its due time or later) invokes f and
\* locks the wrapper again when f returns; hence two calls between which
\* the host has run every pending unlock timer both invoke f.
C3_ReleaseOnTimer ==
    \A w \in ThrottleIds :
        /\ Truthy(inThrottle[w]) => \E tm \in timers : tm.w = w
        /\ \A tm \in timers :
              tm.w = w => \E k \in InvokedOf(w) : tm.due = invoked[k].t + limit[w]
        /\ \A j \in CallsOf(w) :
              calls[j].pending = 0
              => /\ InvokedBy(j) # {}
                 /\ calls[j].outcome = "returned" => Truthy(calls[j].left)

\* two calls more than T > 0 apart, the first of which locked the wrapper
\* and the second of which came after the unlock timer had run, have both
\* invoked f, and a call between them found the wrapper still locked more
\* than T after the invocation that locked it
C3_Witness ==
    \E w \in ThrottleIds : \E i, j \in CallsOf(w) :
        /\ limit[w] > 0
        /\ calls[j].t > calls[i].t + limit[w]
        /\ InvokedBy(i) # {} /\ InvokedBy(j) # {}
        /\ calls[i].outcome = "returned"
        /\ calls[j].outcome = "returned"
        /\ calls[j].saw = "false" /\ calls[j].pending = 0
        /\ \E m \in CallsOf(w) :
              /\ i < m /\ m < j
              /\ calls[m].t > calls[i].t + limit[w]
              /\ Truthy(calls[m].saw)

\* C8: every call to f' that finds the wrapper unlocked invokes f within the
\* call, once, with the arguments and the receiver of that call, and the
\* wrapper is locked when the call returns.
C8_ThrottlePassThrough ==
    \A w \in ThrottleIds : \A i \in CallsOf(w) :
        ~Truthy(calls[i].saw) =>
            /\ Cardinality(InvokedBy(i)) = 1
            /\ \A k \in InvokedBy(i) :
                  /\ invoked[k].args = calls[i].args
                  /\ invoked[k].this = calls[i].this
                  /\ invoked[k].t = calls[i].t
                  /\ invoked[k].from = "call"
            /\ calls[i].outcome = "returned" => calls[i].left = "true"

\* an unlocked call on an object receiver has returned, and so has a nested one
C8_Witness ==
    \E w \in ThrottleIds : \E i, j \in CallsOf(w) :
        /\ j = i + 1
        /\ calls[i].t = calls[j].t
        /\ ~Truthy(calls[i].saw) /\ ~Truthy(calls[j].saw)
        /\ calls[i].this = "element" /\ calls[j].this = "undefined"
        /\ calls[i].args # calls[j].args
        /\ calls[i].outcome = "returned"
        /\ InvokedBy(i) # {} /\ InvokedBy(j) # {}

\* C12: a locked throttle wrapper eventually becomes unlocked again, given
\* that time passes and due timers are run; no step removes a pending unlock
\* timer or moves its due time, other than the timer firing when due, which
\* unlocks the wrapper.
C12_LockSelfClears ==
    /\ \A w \in ThrottleIds : Truthy(inThrottle[w]) ~> ~Truthy(inThrottle[w])
    /\ [][\A tm \in timers :
              tm.kind = "unlock" =>
                  \/ tm \in timers'
                  \/ tm.due <= now /\ inThrottle'[tm.w] = "false"]_vars

\* a call was made while the wrapper was locked, and the wrapper is unlocked
\* again with no timer pending
C12_Witness ==
    \E w \in ThrottleIds : \E i \in CallsOf(w) :
        /\ Truthy(calls[i].saw)
        /\ limit[w] > 0
        /\ inThrottle[w] = "false"
        /\ timers = {}

\* C15: a call to f' made from inside f, while f runs for an unlocked call
\* to the same f', finds the wrapper locked and does not invoke f again.
C15_ReentrantDropped ==
    \A w \in ThrottleIds : \A i \in CallsOf(w) :
        calls[i].depth > 0 => Truthy(calls[i].saw) /\ InvokedBy(i) = {}

\* the calls to the wrapper of call i made by its callers after call i
\* (not from inside the callback)
TopAfter(i) == {j \in After(i) : calls[j].depth = 0}

\* C16: when f throws during an unlocked call to f', the call throws too,
\* the wrapper is as unlocked as it was and no timer was scheduled, so the
\* next call invokes f again.
C16_ThrowLeavesUnlocked ==
    /\ [](\A w \in ThrottleIds : \A i \in CallsOf(w) :
             calls[i].outcome = "threw" =>
                 /\ ~Truthy(calls[i].saw)
                 /\ InvokedBy(i) # {}
                 /\ calls[i].left = calls[i].saw
                 /\ \A j \in TopAfter(i) :
                       (\A m \in TopAfter(i) : m >= j) =>
                           ~Truthy(calls[j].saw) /\ InvokedBy(j) # {})
    /\ [][(Len(calls') > Len(calls) /\ calls'[Len(calls) + 1].outcome = "threw")
            => /\ inThrottle' = inThrottle
               /\ timers' = timers
               /\ nextTimerId' = nextTimerId]_vars

(***************************************************************************)
(* Several wrappers.                                                       *)
(***************************************************************************)
\* the invocations in log that went through wrapper w, in order
InvokedLog(log, w) == SelectSeq(log, LAMBDA r : r.w = w)

\* the pending timers in tms that wrapper w scheduled
TimersOf(tms, w) == {tm \in tms : tm.w = w}

\* this step is a call to wrapper w (with the calls made from inside it)
CallOn(w) ==
    /\ Len(calls') > Len(calls)
    /\ \A i \in DOMAIN calls' : i > Len(calls) => calls'[i].w = w

\* this step is the firing of a timer of wrapper w
FiredOf(w) ==
    /\ calls' = calls
    /\ \E tm \in timers : tm.w = w /\ tm.due <= now /\ timers' = timers \ {tm}

\* C14: a call to one wrapper, or the firing of its timer, leaves the lock
\* flag, the timer handle, the pending timers and the invocations of every
\* other wrapper unchanged; a call is dropped only because of an invocation
\* through the same wrapper whose unlock timer is still pending, and a
\* debounced invocation comes from a call to the same wrapper.
C14_WrapperIndependence ==
    /\ [][/\ \A w \in AllThrottleIds :
                ~(CallOn(w) \/ FiredOf(w)) =>
                    /\ inThrottle'[w] = inThrottle[w]
                    /\ TimersOf(timers', w) = TimersOf(timers, w)
                    /\ InvokedLog(invoked', w) = InvokedLog(invoked, w)
          /\ \A w \in AllDebounceIds :
                ~(CallOn(w) \/ FiredOf(w)) =>
                    /\ timeout'[w] = timeout[w]
                    /\ TimersOf(timers', w) = TimersOf(timers, w)
                    /\ InvokedLog(invoked', w) = InvokedLog(invoked, w)]_vars
    /\ [](/\ \A w \in AllThrottleIds : \A i \in CallsOf(w) :
                Truthy(calls[i].saw) =>
                    /\ calls[i].pending > 0
                    /\ \E k \in InvokedOf(w) :
                          /\ invoked[k].call < i
                          /\ calls[i].t >= invoked[k].t
          /\ \A w \in AllDebounceIds : \A k \in InvokedOf(w) :
                calls[invoked[k].call].w = w)

\* two throttle wrappers were called at the same instant and both invoked
\* their callback; one is unlocked again while the other is still locked and
\* a debounce wrapper has a timer pending
C14_Witness ==
    \E v, w \in AllThrottleIds : \E i \in CallsOf(v), j \in CallsOf(w) :
        /\ v # w
        /\ calls[i].t = calls[j].t
        /\ InvokedBy(i) # {} /\ InvokedBy(j) # {}
        /\ inThrottle[v] = "false"
        /\ inThrottle[w] = "true"
        /\ \E d \in AllDebounceIds : TimersOf(timers, d) # {}

(***************************************************************************)
(* Debounce claims.                                                        *)
(***************************************************************************)
\* call i was followed by a call less than W milliseconds later
Superseded(i) ==
    \E j \in After(i) : calls[j].t - calls[i].t < wait[calls[i].w]

\* W milliseconds went by after call i without another call
Settled(i) ==
    /\ now > calls[i].t + wait[calls[i].w]
    /\ \A j \in After(i) : calls[j].t > calls[i].t + wait[calls[i].w]

\* the pending timers of debounce wrapper w
Pending(w) == {tm \in timers : tm.w = w /\ tm.kind = "later"}

\* the call to the wrapper of call i that follows call i, if any
NextCall(i) == {j \in After(i) : \A m \in After(i) : j <= m}

\* the timer of call i has run: it is no longer pending, and the call that
\* followed, if any, found no timer pending
Ran(i) ==
    /\ \A tm \in Pending(calls[i].w) : tm.call # i
    /\ \A j \in NextCall(i) : calls[j].pending = 0

\* C4: in a burst of calls to f'' each less than W after the previous one and
\* none within W after the last, the earlier calls never invoke f and the
\* last call invokes f exactly once, exactly W milliseconds after it, with
\* its arguments.
C4_DebounceBurst ==
    \A w \in DebounceIds : \A i \in CallsOf(w) :
        /\ Superseded(i) => InvokedBy(i) = {}
        /\ Settled(i) => Cardinality(InvokedBy(i)) = 1
        /\ \A k \in InvokedBy(i) :
              /\ invoked[k].t = calls[i].t + wait[w]
              /\ invoked[k].args = calls[i].args

\* C4, amended: in a burst of calls to f'' each less than W after the
\* previous one, the earlier calls never invoke f, and the last call invokes
\* f exactly once, with its arguments, when the host runs its timer, W
\* milliseconds after it or later, provided no call follows before that.
C4_DebounceBurstOnTimer ==
    \A w \in DebounceIds : \A i \in CallsOf(w) :
        /\ Superseded(i) => InvokedBy(i) = {}
        /\ Cardinality(InvokedBy(i)) <= 1
        /\ Ran(i) /\ ~Superseded(i) => Cardinality(InvokedBy(i)) = 1
        /\ \A k \in InvokedBy(i) :
              /\ invoked[k].t >= calls[i].t + wait[w]
              /\ invoked[k].args = calls[i].args

\* a burst of two calls with different arguments has fired, later than W
\* milliseconds after its last call
C4_Witness ==
    \E w \in DebounceIds : \E i, j \in CallsOf(w) :
        /\ j = i + 1
        /\ calls[j].t > calls[i].t
        /\ Superseded(i)
        /\ Settled(j)
        /\ calls[i].args # calls[j].args
        /\ \E k \in InvokedBy(j) : invoked[k].t > calls[j].t + wait[w]

\* C5: of two successive calls to f'' more than W milliseconds apart, the
\* first has invoked f with its own arguments before the second is made, and
\* the second invokes f again with its own arguments once it has settled.
C5_DebounceSeparated ==
    \A w \in DebounceIds : \A i, j \in CallsOf(w) :
        (j \in After(i) /\ (\A m \in After(i) : m >= j)
           /\ calls[j].t > calls[i].t + wait[w])
        => /\ \E k \in InvokedBy(i) :
                 /\ invoked[k].t < calls[j].t
                 /\ invoked[k].args = calls[i].args
                 /\ \A m \in InvokedBy(j) : k < m
           /\ Settled(j) =>
                 /\ \E m \in InvokedBy(j) : invoked[m].args = calls[j].args
                 /\ Cardinality(InvokedBy(i) \cup InvokedBy(j)) = 2

\* C5, amended: every timer of f'' is due W milliseconds after its call;
\* of two successive calls to f'' between which the host has run the first
\* call's timer, the first has invoked f with its own arguments before the
\* second is made, and the second invokes f again with its own arguments
\* once its timer has run: two invocations in total.
C5_DebounceSeparatedOnTimer ==
    \A w \in DebounceIds :
        /\ \A tm \in Pending(w) : tm.due = calls[tm.call].t + wait[w]
        /\ \A i \in CallsOf(w) : \A j \in NextCall(i) :
              calls[j].pending = 0
              => /\ calls[j].t >= calls[i].t + wait[w]
                 /\ \E k \in InvokedBy(i) :
                       /\ invoked[k].t <= calls[j].t
                       /\ invoked[k].args = calls[i].args
                       /\ \A m \in InvokedBy(j) : k < m
                 /\ Ran(j) =>
                       /\ \E m \in InvokedBy(j) : invoked[m].args = calls[j].args
                       /\ Cardinality(InvokedBy(i) \cup InvokedBy(j)) = 2

\* two calls more than W > 0 apart with different arguments have both
\* fired, the first one later than W milliseconds after its call
C5_Witness ==
    \E w \in DebounceIds : \E i, j \in CallsOf(w) :
        /\ j = i + 1
        /\ wait[w] > 0
        /\ calls[j].t > calls[i].t + wait[w]
        /\ calls[i].args # calls[j].args
        /\ InvokedBy(i) # {} /\ InvokedBy(j) # {}
        /\ \E k \in InvokedBy(i) : invoked[k].t > calls[i].t + wait[w]

\* C6: a debounced wrapper has at most one pending timer, the one its latest
\* call scheduled, and a cancelled timer never invokes f.
C6_SinglePendingTimer ==
    \A w \in DebounceIds :
        /\ Cardinality(Pending(w)) <= 1
        /\ \A tm \in Pending(w) : tm.id = timeout[w] /\ tm.id \notin cancelled
        /\ \A k \in InvokedOf(w) : invoked[k].timer \notin cancelled

\* a call has cancelled a pending timer and scheduled its own
C6_Witness ==
    \E w \in DebounceIds :
        /\ cancelled # {}
        /\ Cardinality(Pending(w)) = 1
        /\ InvokedOf(w) # {}

\* C7: when the debounced wrapper invokes f, f receives the arguments and
\* the receiver of the call that scheduled the invocation.
C7_DebouncePassThrough ==
    \A w \in DebounceIds : \A k \in InvokedOf(w) :
        /\ invoked[k].args = calls[invoked[k].call].args
        /\ invoked[k].this = calls[invoked[k].call].this

(***************************************************************************)
(* Konami claims.                                                          *)
(***************************************************************************)
Min(a, b) == IF a < b THEN a ELSE b

\* the last n elements of seq
LastN(seq, n) == SubSeq(seq, Len(seq) - n + 1, Len(seq))

\* C9: after every key press the buffer holds at most 10 key identifiers,
\* the most recent min(10, keys seen) ones in arrival order.
C9_BoundedBuffer ==
    /\ Len(konamiCode) <= KonamiLen
    /\ konamiCode = LastN(keysSeen, Min(KonamiLen, Len(keysSeen)))

\* more than 10 keys were pressed, off-pattern and repeated ones among
\* them, and the oldest ones are gone
C9_Witness ==
    /\ Len(keysSeen) > KonamiLen + 1
    /\ Len(konamiCode) = KonamiLen
    /\ noise > 0
    /\ konamiCode[1] # keysSeen[1]
    /\ konamiCode[1] = konamiCode[2]

\* the positions at which a key stream differs from the pattern
Altered(keys) == {i \in DOMAIN keys : keys[i] # Target[i]}

\* C10: from the empty buffer, the 10 keys of the pattern in order raise
\* exactly one match, on the 10th key; the same 10 keys with one position
\* replaced by a different key identifier raise no match.
C10_ExactPattern ==
    /\ (Len(keysSeen) <= KonamiLen /\ Altered(keysSeen) = {}) =>
          matches = IF Len(keysSeen) = KonamiLen THEN <<KonamiLen>> ELSE <<>>
    /\ (Len(keysSeen) = KonamiLen /\ Cardinality(Altered(keysSeen)) = 1) =>
          matches = <<>>

\* the 10 keys pressed up to and including press n
Window(n) == SubSeq(keysSeen, n - KonamiLen + 1, n)

\* the presses that raised the alert
Matched == {matches[j] : j \in DOMAIN matches}

\* C11: whenever the last 10 keys pressed, up to and including a press, are
\* the pattern in order, that press raises a match, whatever came before.
C11_RollingWindow ==
    \A n \in DOMAIN keysSeen :
        (n >= KonamiLen /\ Window(n) = Target) => n \in Matched

\* the pattern was matched after a failed attempt and an off-pattern key
C11_Witness ==
    \E n \in Matched :
        /\ n > KonamiLen
        /\ Window(n) = Target
        /\ keysSeen[1] = Target[1]
        /\ noise > 0

\* C13: a press that raises a match changes the buffer by the append and
\* trim of that key only, so right after a match the buffer still holds the
\* 10 keys of the pattern.
C13_NoResetOnMatch ==
    (matches # <<>> /\ matches[Len(matches)] = Len(keysSeen)) =>
        /\ konamiCode = LastN(keysSeen, Min(KonamiLen, Len(keysSeen)))
        /\ Len(konamiCode) = KonamiLen
        /\ konamiCode = Target

\* C17: a press raises a match only if the buffer then holds exactly 10
\* elements equal, one by one, to the pattern.
C17_MatchImpliesWindow ==
    \A n \in Matched : n >= KonamiLen /\ Window(n) = Target

\* C18: any two matches are at least 10 key presses apart.
C18_NoRetrigger ==
    \A i, j \in DOMAIN matches : i < j => matches[j] - matches[i] >= KonamiLen

(***************************************************************************)
(* Page claims.                                                            *)
(***************************************************************************)
\* C19: after k clicks on remove-item on a list of at least k items, with
\* no other list operation and once all timers have fired, the list has
\* exactly k fewer items, whatever the time between the clicks.
C19_RemoveLastPerClick ==
    (timers = {} /\ listOps = 0 /\ removeClicks <= listSize0) =>
        Len(dynamicList) = listSize0 - removeClicks

\* C20: typing one character per key press never makes the value of the
\* message textarea longer than 100 characters.
C20_MessageCap == messageLen <= MessageCap

\* the elements of a list that carry the class active
ActiveOf(list) == {i \in list : document[i].active}

\* C21: after any non-empty sequence of clicks on tab buttons, exactly one
\* tab button carries active, the one clicked last, and at most one tab
\* panel carries active, the one whose id is that button's data-tab (none
\* when no element has that id).
C21_SingleActiveTab ==
    lastTab > 0 =>
        /\ ActiveOf(TabButtons(document)) = {lastTab}
        /\ Cardinality(ActiveOf(TabPanels(document))) <= 1
        /\ ActiveOf(TabPanels(document)) =
               {i \in TabPanels(document) : document[i].id = document[lastTab].tab}

\* the ordinals of the events addMouseLogEntry was called with, in order
Logged ==
    LET Pick[i \in 0..Len(mouseEvents)] ==
            IF i = 0 THEN <<>>
            ELSE IF mouseEvents[i].logged THEN Append(Pick[i - 1], i)
            ELSE Pick[i - 1]
    IN  Pick[Len(mouseEvents)]

\* the entries of the log that addMouseLogEntry made, in the log's order
LogEntries ==
    LET made == SelectSeq(Children(mouseLog), LAMBDA nd : nd.entry # 0)
    IN  [i \in DOMAIN made |-> made[i].entry]

\* C22: after every call of addMouseLogEntry, from mouseenter, mouseleave
\* or the throttled mousemove, the log holds at most 10 entries, and the
\* logged events it holds are the min(10, logged) most recent ones in
\* logging order, what the markup put in the log being the oldest.
C22_MouseLogBound ==
    Logged # <<>> =>
        /\ Len(Children(mouseLog)) <= MouseLogCap
        /\ LogEntries = LastN(Logged, Min(MouseLogCap, Len(Logged)))
        /\ \A i, j \in DOMAIN mouseLog :
               (mouseLog[i].entry = 0 /\ mouseLog[j].entry # 0) => i < j

\* more than 10 events were logged, a mousemove was dropped by the throttle
\* and another one logged, and the oldest entries and the markup's nodes
\* are gone
C22_Witness ==
    /\ Len(Logged) > MouseLogCap
    /\ Len(mouseLog) = MouseLogCap
    /\ mouseLog[1].entry > 1
    /\ \E i \in DOMAIN mouseEvents :
           mouseEvents[i].type = "mousemove" /\ ~mouseEvents[i].logged
    /\ \E i \in DOMAIN mouseEvents :
           mouseEvents[i].type = "mousemove" /\ mouseEvents[i].logged

(***************************************************************************)
(* Initial states.                                                         *)
(***************************************************************************)
InitTime ==
    /\ now = 0
    /\ inThrottle = [w \in ThrottleIds |-> "undefined"]
    /\ timeout = [w \in DebounceIds |-> 0]
    /\ timers = {}
    /\ nextTimerId = 1
    /\ calls = <<>>
    /\ invoked = <<>>
    /\ cancelled = {}

\* a page without tab buttons
InitTabs ==
    /\ document = <<>>
    /\ lastTab = 0

\* the button is not highlighted, and lines 16-17 have written the size and
\* the scroll position the window has at load to the displays
InitWindow ==
    /\ background = FALSE
    /\ shown = UpdateDisplay(UpdateDisplay(MarkupDisplay, "resize", 0), "scroll", 0)
    /\ windowEvents = <<>>

\* a page whose mouse log is empty
InitMouse ==
    /\ mouseLog = <<>>
    /\ mouseEvents = <<>>
    /\ InitWindow

\* a page whose list is empty
InitListEmpty ==
    /\ dynamicList = <<>>
    /\ listSize0 = 0
    /\ removeClicks = 0
    /\ itemCount = 0
    /\ listOps = 0

\* a page whose message textarea is empty
InitMessageEmpty ==
    /\ messageLen = 0
    /\ messageLog = 0

InitPage ==
    /\ InitListEmpty
    /\ InitMessageEmpty
    /\ InitTabs
    /\ InitMouse

InitKonami ==
    /\ konamiCode = <<>>
    /\ keysSeen = <<>>
    /\ matches = <<>>
    /\ rainbow = FALSE
    /\ pos = 0
    /\ noise = 0

InitThrottle ==
    /\ InitTime
    /\ InitKonami
    /\ InitPage
    /\ limit \in [ThrottleIds -> Limits]
    /\ wait = [w \in DebounceIds |-> 0]

NextThrottle ==
    \/ \E w \in ThrottleIds, plan \in Plans : ThrottleCall(w, plan)
    \/ \E tm \in timers : ThrottleUnlock(tm)
    \/ Tick(MaxThrottleTime)

SpecThrottle == InitThrottle /\ [][NextThrottle]_vars

\* the calls of the liveness specification are all the same plain call
LivePlans ==
    {p \in Plans : \A i \in DOMAIN p : p[i].args = "b" /\ p[i].this = "undefined"}

NextThrottleLive ==
    \/ \E w \in ThrottleIds, plan \in LivePlans : ThrottleCall(w, plan)
    \/ \E tm \in timers : ThrottleUnlock(tm)
    \/ Tick(MaxThrottleTime)
    \/ Elapse

\* time passes while a timer is pending, and the host runs the timers due
SpecThrottleLive ==
    /\ InitThrottle
    /\ [][NextThrottleLive]_vars
    /\ WF_vars(Elapse)
    /\ WF_vars(\E tm \in timers : ThrottleUnlock(tm))

\* two throttle and two debounce wrappers, built with different delays
InitWrappers ==
    /\ now = 0
    /\ inThrottle = [w \in AllThrottleIds |-> "undefined"]
    /\ timeout = [w \in AllDebounceIds |-> 0]
    /\ timers = {}
    /\ nextTimerId = 1
    /\ calls = <<>>
    /\ invoked = <<>>
    /\ cancelled = {}
    /\ InitKonami
    /\ InitPage
    /\ limit = [w \in AllThrottleIds |-> IF w = "t1" THEN 1 ELSE MaxLimit]
    /\ wait = [w \in AllDebounceIds |-> IF w = "d1" THEN 1 ELSE MaxWait]

NextWrappers ==
    \/ \E w \in AllThrottleIds, plan \in LivePlans : ThrottleCall(w, plan)
    \/ \E w \in AllDebounceIds : DebounceCall(w, "a", "undefined")
    \/ \E tm \in timers : ThrottleUnlock(tm)
    \/ \E tm \in timers : DebounceLater(tm)
    \/ Tick(MaxThrottleTime)

SpecWrappers == InitWrappers /\ [][NextWrappers]_vars

InitDebounce ==
    /\ InitTime
    /\ InitKonami
    /\ InitPage
    /\ limit = [w \in ThrottleIds |-> 0]
    /\ wait \in [DebounceIds -> Waits]

NextDebounce ==
    \/ \E w \in DebounceIds, shape \in CallShapes :
          DebounceCall(w, shape.args, shape.this)
    \/ \E tm \in timers : DebounceLater(tm)
    \/ Tick(MaxDebounceTime)

SpecDebounce == InitDebounce /\ [][NextDebounce]_vars

InitKonamiSpec ==
    /\ InitTime
    /\ InitKonami
    /\ InitPage
    /\ limit = [w \in ThrottleIds |-> 0]
    /\ wait = [w \in DebounceIds |-> 0]

NextKonami ==
    \/ TypePattern
    \/ \E k \in Keys, restart \in BOOLEAN : TypeOther(k, restart)
    \/ \E tm \in timers : RainbowReset(tm)
    \/ Elapse

SpecKonami == InitKonamiSpec /\ [][NextKonami]_vars

\* the page with its list, its throttle wrappers and its button
InitList ==
    /\ now = 0
    /\ inThrottle = [w \in MouseIds |-> "undefined"]
    /\ limit = [w \in MouseIds |-> PageLimit(w)]
    /\ timeout = [w \in DebounceIds |-> 0]
    /\ wait = [w \in DebounceIds |-> 0]
    /\ timers = {}
    /\ nextTimerId = 1
    /\ calls = <<>>
    /\ invoked = <<>>
    /\ cancelled = {}
    /\ InitKonami
    /\ listSize0 \in 0..MaxItems
    /\ dynamicList = ListOf(listSize0)
    /\ removeClicks = 0
    /\ itemCount = listSize0
    /\ listOps = 0
    /\ InitMessageEmpty
    /\ InitTabs
    /\ InitMouse

NextList ==
    \/ RemoveItemClick
    \/ AddItemClick
    \/ \E i \in DOMAIN dynamicList : DeleteItemClick(dynamicList[i].id)
    \/ \E ok \in BOOLEAN : ClearAllClick(ok)
    \/ \E tm \in timers : RemoveFire(tm)
    \/ \E tm \in timers : FadeInFire(tm)
    \/ \E tm \in timers : ClearFire(tm)
    \/ \E w \in WindowIds : WindowEvent(w)
    \/ DblClick
    \/ \E tm \in timers : ThrottleUnlock(tm)
    \/ \E tm \in timers : BackgroundReset(tm)
    \/ ListTick

SpecList == InitList /\ [][NextList]_vars

InitMessage ==
    /\ InitTime
    /\ InitKonami
    /\ InitPage
    /\ limit = [w \in ThrottleIds |-> 0]
    /\ wait = [w \in DebounceIds |-> 0]

NextMessage ==
    \/ \E key \in MessageKeys, erased \in BOOLEAN : MessageKeyDown(key, erased)
    \/ \E n \in PasteLens : MessagePaste(n)
    \/ \E fieldsValid \in BOOLEAN : FormSubmit(fieldsValid)

SpecMessage == InitMessage /\ [][NextMessage]_vars

InitTabsSpec ==
    /\ InitTime
    /\ InitKonami
    /\ limit = [w \in ThrottleIds |-> 0]
    /\ wait = [w \in DebounceIds |-> 0]
    /\ InitListEmpty
    /\ InitMessageEmpty
    /\ document \in Documents
    /\ lastTab = 0
    /\ InitMouse

NextTabs == \E i \in DOMAIN document : Click(i)

SpecTabs == InitTabsSpec /\ [][NextTabs]_vars

InitMouseSpec ==
    /\ now = 0
    /\ inThrottle = [w \in MouseIds |-> "undefined"]
    /\ limit = [w \in MouseIds |-> PageLimit(w)]
    /\ timeout = [w \in DebounceIds |-> 0]
    /\ wait = [w \in DebounceIds |-> 0]
    /\ timers = {}
    /\ nextTimerId = 1
    /\ calls = <<>>
    /\ invoked = <<>>
    /\ cancelled = {}
    /\ InitKonami
    /\ InitListEmpty
    /\ InitMessageEmpty
    /\ InitTabs
    /\ mouseLog \in Markups
    /\ mouseEvents = <<>>
    /\ InitWindow

NextMouse ==
    \/ \E type \in {"mouseenter", "mouseleave"} : MouseEnterLeave(type)
    \/ MouseMove
    \/ \E tm \in timers : ThrottleUnlock(tm)
    \/ MouseTick

SpecMouse == InitMouseSpec /\ [][NextMouse]_vars

====
